---- MODULE Spec2Model ----
(***************************************************************************)
(* MyMindEditorProvider: a custom text editor that relays messages between *)
(* a webview and a text document.                                          *)
(*                                                                         *)
(* A text (document content, message payload, stylesheet) is a sequence of *)
(* one-character strings; an html file is a sequence of lexical tokens.    *)
(* The host (document store, edit queue, event dispatcher, webview) is     *)
(* modelled only as far as the provider's calls reach it.                  *)
(***************************************************************************)
EXTENDS Integers, Sequences, FiniteSets, TLC

VARIABLES
    fileHtml,          \* mymind/index.html on disk: [present, content]
    fileCss,           \* mymind/map.css on disk: [present, content]
    status,            \* resolveCustomTextEditor: "inactive", "active", "failed"
    disposed,          \* the host has disposed the webview panel
    enableScripts,     \* webviewPanel.webview.options.enableScripts
    html,              \* webviewPanel.webview.html
    mapCss,            \* const mapCss captured by updateMapCss
    changeSubscribed,  \* changeDocumentSubscription is live
    disposeRegistered, \* the onDidDispose callback is registered
    messageRegistered, \* the onDidReceiveMessage callback is registered
    doc,               \* document.getText()
    docVersion,        \* document.version
    pending,           \* workspace edits handed to applyEdit, not yet settled
    outbox,            \* messages posted to the webview, in order
    nMsgs,             \* messages the webview has sent to the panel
    lastType,          \* type of the last such message
    nReady,            \* 'ready' messages the message callback has handled
    lastData,          \* <<t>> for the last 'changed' payload handled, else << >>
    nChangeEvents,     \* onDidChangeTextDocument events the host has fired
    listenerCalls,     \* invocations of the document-change listener
    lastEdit,          \* the last edit the host applied
    rejected,          \* the host has refused an edit
    external,          \* the document was changed by something else
    nOutside,          \* change events that no edit of this editor caused
    jsonResult         \* result of the last getDocumentAsJson call

vars == <<fileHtml, fileCss, status, disposed, enableScripts, html, mapCss,
          changeSubscribed, disposeRegistered, messageRegistered, doc,
          docVersion, pending, outbox, nMsgs, lastType, nReady, lastData,
          nChangeEvents, listenerCalls, lastEdit, rejected, external,
          nOutside, jsonResult>>

----------------------------------------------------------------------------
(* Bounds *)

MaxLen == 2

MaxMsgs == 2

MaxDocEvents == 1

MaxPieces == 3

MaxJsonLen == 3

----------------------------------------------------------------------------
(* Texts *)

NL == "\n"

RECURSIVE SeqsUpTo(_, _)
SeqsUpTo(S, n) ==
    IF n = 0 THEN {<< >>}
    ELSE LET shorter == SeqsUpTo(S, n - 1)
         IN  shorter \cup {Append(s, c) : s \in shorter, c \in S}

\* "1" is well-formed JSON, "" and "\n" are not
DocAlphabet == {"1", NL}

Texts == SeqsUpTo(DocAlphabet, MaxLen)

JsonAlphabet == {" ", NL, "1", "{", "}", "a"}

JsonTexts == SeqsUpTo(JsonAlphabet, MaxJsonLen)

----------------------------------------------------------------------------
(* The host's TextDocument: lines, positions, range replacement *)

NewlinesBefore(t, i) == Cardinality({x \in 1..i : t[x] = NL})

\* document.lineCount
LineCount(t) == 1 + NewlinesBefore(t, Len(t))

\* offset of the first character of a line that exists
LineStartOffset(t, line) ==
    IF line = 0 THEN 0
    ELSE CHOOSE i \in 1..Len(t) : t[i] = NL /\ NewlinesBefore(t, i) = line

LineLength(t, line) ==
    LET start == LineStartOffset(t, line)
        stop  == IF line + 1 < LineCount(t)
                 THEN LineStartOffset(t, line + 1) - 1
                 ELSE Len(t)
    IN  stop - start

\* a position past the end is adjusted to the end of the document, a
\* character past the end of its line to the end of the line
OffsetAt(t, line, character) ==
    IF line >= LineCount(t) THEN Len(t)
    ELSE LET len == LineLength(t, line)
         IN  LineStartOffset(t, line) + (IF character > len THEN len ELSE character)

ReplaceRange(t, range, text) ==
    LET s == OffsetAt(t, range.startLine, range.startCharacter)
        e == OffsetAt(t, range.endLine, range.endCharacter)
    IN  SubSeq(t, 1, s) \o text \o SubSeq(t, e + 1, Len(t))

----------------------------------------------------------------------------
(* getHtmlForWebview: the regular expression                               *)
(*   /(<link.+?href="|<script.+?src="|<img.+?src=")(.+?)"/g                *)
(* over tokens.  "." matches any token but a newline; "href=" and the      *)
(* quote after it are two tokens.                                          *)

Quote == "\""

Openers == {"<link", "<script", "<img"}

AttrOf(opener) == IF opener = "<link" THEN "href=" ELSE "src="

NoNewline(h, a, b) == \A x \in a..b : h[x] # NL

\* closing quotes that can end group 2 when the attribute token is at j
ClosersAt(h, j) ==
    {k \in (j + 3)..Len(h) : h[k] = Quote /\ NoNewline(h, j + 2, k - 1)}

\* attribute tokens at which a match starting at opener i can complete
AttrsAt(h, i) ==
    {j \in (i + 2)..(Len(h) - 1) :
        /\ h[j] = AttrOf(h[i])
        /\ h[j + 1] = Quote
        /\ NoNewline(h, i + 1, j - 1)
        /\ ClosersAt(h, j) # {}}

Min(S) == CHOOSE x \in S : \A y \in S : x <= y

\* path.join(extensionPath, 'mymind')
DirPath == <<"/ext/mymind">>

IsAbsolute(p) == Len(p) > 0 /\ p[1] \in {"/c.png"}

\* path.resolve(dirPath, $2)
Resolve(dir, p) == IF IsAbsolute(p) THEN p ELSE dir \o <<"/">> \o p

\* Uri.toString() percent-encodes what a path may not hold
EncodeToken(tok) ==
    CASE tok = Quote   -> "%22"
      [] tok = " "     -> "%20"
      [] tok = ">"     -> "%3E"
      [] tok = "<link" -> "%3Clink"
      [] tok = "<script" -> "%3Cscript"
      [] tok = "<img"  -> "%3Cimg"
      [] tok = "href=" -> "href%3D"
      [] tok = "src="  -> "src%3D"
      [] OTHER         -> tok

Encode(p) == [x \in 1..Len(p) |-> EncodeToken(p[x])]

\* vscode.Uri.file(path.resolve(dirPath, $2)).with({scheme: 'vscode-resource'}).toString()
ResourceUri(value) == <<"vscode-resource:">> \o Encode(Resolve(DirPath, value))

\* the replacer: $1 + uri + '"'
Replacer(group1, group2) == group1 \o ResourceUri(group2) \o <<Quote>>

RECURSIVE ReplaceFrom(_, _)
ReplaceFrom(h, i) ==
    IF i > Len(h) THEN << >>
    ELSE IF h[i] \in Openers /\ AttrsAt(h, i) # {}
         THEN LET j == Min(AttrsAt(h, i))
                  k == Min(ClosersAt(h, j))
              IN  Replacer(SubSeq(h, i, j + 1), SubSeq(h, j + 2, k - 1))
                      \o ReplaceFrom(h, k + 1)
         ELSE <<h[i]>> \o ReplaceFrom(h, i + 1)

\* fileContent.replace(regex, replacer)
GetHtmlForWebview(fileContent) == ReplaceFrom(fileContent, 1)

(* Html files are written as runs of pieces: whole tags, a newline, text. *)

LinkTag(v)   == <<"<link", " ", "href=", Quote>> \o v \o <<Quote, ">">>
ScriptTag(v) == <<"<script", " ", "src=", Quote>> \o v \o <<Quote, ">">>
ImgTag(v)    == <<"<img", " ", "src=", Quote>> \o v \o <<Quote, ">">>

PieceIds == {"link", "script", "img", "inline", "newline", "text"}

PieceTokens(id, rewritten) ==
    LET val(v) == IF rewritten THEN ResourceUri(v) ELSE v
    IN  CASE id = "link"    -> LinkTag(val(<<"map.css">>))
          [] id = "script"  -> ScriptTag(val(<<"my-mind.js">>))
          [] id = "img"     -> ImgTag(val(<<"/c.png">>))
          [] id = "inline"  -> <<"<script", ">">>
          [] id = "newline" -> <<NL>>
          [] id = "text"    -> <<"x">>

RECURSIVE Flatten(_, _)
Flatten(ps, rewritten) ==
    IF ps = << >> THEN << >>
    ELSE PieceTokens(Head(ps), rewritten) \o Flatten(Tail(ps), rewritten)

HtmlInputs == {Flatten(ps, FALSE) : ps \in SeqsUpTo(PieceIds, MaxPieces)}

\* the index.html of the main specification
IndexHtml == Flatten(<<"link", "newline", "script">>, FALSE)

CssTexts == {<<"c">>}

----------------------------------------------------------------------------
(* getDocumentAsJson *)

Whitespace == {" ", NL}

RECURSIVE TrimStart(_)
TrimStart(t) ==
    IF t # << >> /\ Head(t) \in Whitespace THEN TrimStart(Tail(t)) ELSE t

RECURSIVE TrimEnd(_)
TrimEnd(t) ==
    IF t # << >> /\ t[Len(t)] \in Whitespace
    THEN TrimEnd(SubSeq(t, 1, Len(t) - 1)) ELSE t

\* String.prototype.trim
Trim(t) == TrimEnd(TrimStart(t))

RECURSIVE Digits(_)
Digits(t) == IF t = << >> THEN 0 ELSE 10 * Digits(SubSeq(t, 1, Len(t) - 1)) + 1

EmptyObject == [type |-> "object", num |-> 0]

\* JSON.parse on the texts of JsonAlphabet: a number of 1s or an empty
\* object, with whitespace around it (and inside the braces)
JSONParse(t) ==
    LET core == Trim(t)
        n    == Len(core)
    IN  IF n > 0 /\ \A x \in 1..n : core[x] = "1"
        THEN [ok |-> TRUE, value |-> [type |-> "number", num |-> Digits(core)]]
        ELSE IF /\ n >= 2
                /\ core[1] = "{"
                /\ core[n] = "}"
                /\ \A x \in 2..(n - 1) : core[x] \in Whitespace
        THEN [ok |-> TRUE, value |-> EmptyObject]
        ELSE [ok |-> FALSE, value |-> EmptyObject]

NotValidJson == "Could not get document as json. Content is not valid json"

Returned(v) == [kind |-> "returned", value |-> v, message |-> ""]

Thrown(m) == [kind |-> "thrown", value |-> EmptyObject, message |-> m]

NotCalled == [kind |-> "none", value |-> EmptyObject, message |-> ""]

\* the emptiness test left out
GetDocumentAsJsonNoTrim(text) ==
    IF JSONParse(text).ok THEN Returned(JSONParse(text).value)
    ELSE Thrown(NotValidJson)

GetDocumentAsJson(text) ==
    IF Len(Trim(text)) = 0 THEN Returned(EmptyObject)
    ELSE IF JSONParse(text).ok THEN Returned(JSONParse(text).value)
    ELSE Thrown(NotValidJson)

----------------------------------------------------------------------------
(* resolveCustomTextEditor: the closures and the callbacks *)

\* updateWebview posts this
UpdateWebview(documentText) == [type |-> "update", text |-> documentText]

\* updateMapCss posts this
UpdateMapCss(css) == [type |-> "updateMapCss", text |-> css]

\* the listener with its commented-out call restored
OnDidChangeTextDocumentLive(sameDocument, documentText) ==
    IF sameDocument THEN <<UpdateWebview(documentText)>> ELSE << >>

\* the listener given to onDidChangeTextDocument: what it posts
OnDidChangeTextDocument(sameDocument, documentText) == << >>

\* a dispose callback that forgets the subscription
OnDidDisposeKeep(subscribed) == subscribed

\* the callback given to onDidDispose: whether the subscription stays live
OnDidDispose(subscribed) == FALSE

\* the range ended at the last line's start
UpdateTextDocumentShort(documentText, text) ==
    [range |-> [startLine |-> 0, startCharacter |-> 0,
                endLine |-> LineCount(documentText) - 1, endCharacter |-> 0],
     text  |-> text]

\* updateTextDocument: the edit handed to vscode.workspace.applyEdit
UpdateTextDocument(documentText, text) ==
    [range |-> [startLine |-> 0, startCharacter |-> 0,
                endLine |-> LineCount(documentText), endCharacter |-> 0],
     text  |-> text]

Effects(posts, edits) == [posts |-> posts, edits |-> edits]

\* 'ready' answered in the other order
OnDidReceiveMessageSwapped(e, documentText, css) ==
    CASE e.type = "changed" ->
            Effects(<< >>, <<UpdateTextDocument(documentText, e.data)>>)
      [] e.type = "ready" ->
            Effects(<<UpdateWebview(documentText), UpdateMapCss(css)>>, << >>)
      [] OTHER -> Effects(<< >>, << >>)

\* 'ready' as the default case
OnDidReceiveMessageDefault(e, documentText, css) ==
    CASE e.type = "changed" ->
            Effects(<< >>, <<UpdateTextDocument(documentText, e.data)>>)
      [] OTHER ->
            Effects(<<UpdateMapCss(css), UpdateWebview(documentText)>>, << >>)

\* 'update' carrying the text the view last sent, not the document's
OnDidReceiveMessageEcho(e, documentText, css) ==
    CASE e.type = "changed" ->
            Effects(<< >>, <<UpdateTextDocument(documentText, e.data)>>)
      [] e.type = "ready" ->
            Effects(<<UpdateMapCss(css),
                      UpdateWebview(IF lastData = << >> THEN documentText
                                    ELSE lastData[1])>>, << >>)
      [] OTHER -> Effects(<< >>, << >>)

\* the callback given to onDidReceiveMessage
OnDidReceiveMessage(e, documentText, css) ==
    CASE e.type = "changed" ->
            Effects(<< >>, <<UpdateTextDocument(documentText, e.data)>>)
      [] e.type = "ready" ->
            Effects(<<UpdateMapCss(css), UpdateWebview(documentText)>>, << >>)
      [] OTHER -> Effects(<< >>, << >>)

----------------------------------------------------------------------------
(* State *)

Absent == [present |-> FALSE, content |-> << >>]

File(content) == [present |-> TRUE, content |-> content]

NoEdit == [applied |-> FALSE, stale |-> FALSE, text |-> << >>, before |-> << >>]

\* what the webview can send: the two types the callback knows, the two
\* the bridge itself sends, and a message without a type
OtherTypes == {"update", "updateMapCss", "undefined"}

Messages ==
    {[type |-> "ready", data |-> << >>]}
        \cup {[type |-> "changed", data |-> t] : t \in Texts}
        \cup {[type |-> ty, data |-> <<"1">>] : ty \in OtherTypes}

InitWith(htmlFiles, documents) ==
    /\ fileHtml \in htmlFiles
    /\ fileCss \in {Absent} \cup {File(c) : c \in CssTexts}
    /\ doc \in documents
    /\ docVersion = 1
    /\ status = "inactive"
    /\ disposed = FALSE
    /\ enableScripts = FALSE
    /\ html = << >>
    /\ mapCss = << >>
    /\ changeSubscribed = FALSE
    /\ disposeRegistered = FALSE
    /\ messageRegistered = FALSE
    /\ pending = << >>
    /\ outbox = << >>
    /\ nMsgs = 0
    /\ lastType = "none"
    /\ nReady = 0
    /\ lastData = << >>
    /\ nChangeEvents = 0
    /\ listenerCalls = 0
    /\ lastEdit = NoEdit
    /\ rejected = FALSE
    /\ external = FALSE
    /\ nOutside = 0
    /\ jsonResult = NotCalled

\* the document as the editor opens: empty, or lines with a trailing newline
InitialDocuments == {<< >>, <<"1", NL, "1", NL>>}

\* what another editor writes
ExternalTexts == {<<NL, "1">>}

Init == InitWith({Absent, File(IndexHtml)}, InitialDocuments)

hostVars == <<fileHtml, fileCss>>

panelVars == <<status, enableScripts, html, mapCss, disposeRegistered,
               messageRegistered>>

messageVars == <<nMsgs, lastType, nReady, lastData>>

----------------------------------------------------------------------------
(* Operations *)

\* the callbacks registered before the stylesheet is read
ActivateHandlersFirst ==
    /\ status = "inactive"
    /\ enableScripts' = TRUE
    /\ IF ~fileHtml.present
       THEN /\ status' = "failed"
            /\ UNCHANGED <<html, mapCss, changeSubscribed, disposeRegistered,
                           messageRegistered>>
       ELSE /\ html' = GetHtmlForWebview(fileHtml.content)
            /\ changeSubscribed' = TRUE
            /\ disposeRegistered' = TRUE
            /\ messageRegistered' = TRUE
            /\ IF ~fileCss.present
               THEN /\ status' = "failed"
                    /\ UNCHANGED mapCss
               ELSE /\ mapCss' = fileCss.content
                    /\ status' = "active"
    /\ UNCHANGED <<fileHtml, fileCss, disposed, doc, docVersion, pending, outbox,
                   nMsgs, lastType, nReady, lastData, nChangeEvents,
                   listenerCalls, lastEdit, rejected, external, nOutside,
                   jsonResult>>

\* resolveCustomTextEditor.  The two reads throw when the file is absent,
\* and nothing catches.
Activate ==
    /\ status = "inactive"
    /\ enableScripts' = TRUE
    /\ IF ~fileHtml.present
       THEN /\ status' = "failed"
            /\ UNCHANGED <<html, mapCss, changeSubscribed, disposeRegistered,
                           messageRegistered>>
       ELSE /\ html' = GetHtmlForWebview(fileHtml.content)
            /\ IF ~fileCss.present
               THEN /\ status' = "failed"
                    /\ UNCHANGED <<mapCss, changeSubscribed, disposeRegistered,
                                   messageRegistered>>
               ELSE /\ mapCss' = fileCss.content
                    /\ changeSubscribed' = TRUE
                    /\ disposeRegistered' = TRUE
                    /\ messageRegistered' = TRUE
                    /\ status' = "active"
    /\ UNCHANGED <<hostVars, disposed, doc, docVersion, pending, outbox,
                   messageVars, nChangeEvents, listenerCalls, lastEdit,
                   rejected, external, nOutside, jsonResult>>

\* The host fires onDidChangeTextDocument; the listener runs if subscribed.
ChangeEvent(sameDocument, documentText) ==
    /\ nChangeEvents' = nChangeEvents + 1
    /\ IF changeSubscribed
       THEN /\ listenerCalls' = listenerCalls + 1
            /\ outbox' = outbox \o OnDidChangeTextDocument(sameDocument, documentText)
       ELSE UNCHANGED <<listenerCalls, outbox>>

\* The webview's script posts a message; the host delivers it to the
\* callback, if one is registered.  applyEdit takes the document's version
\* as the edit is handed over.
Receive(e) ==
    /\ status # "inactive"
    /\ ~disposed
    /\ enableScripts
    /\ html # << >>
    /\ nMsgs < MaxMsgs
    /\ nMsgs' = nMsgs + 1
    /\ lastType' = e.type
    /\ IF messageRegistered
       THEN LET r == OnDidReceiveMessage(e, doc, mapCss)
            IN  /\ outbox' = outbox \o r.posts
                /\ pending' = pending \o
                       [x \in 1..Len(r.edits) |->
                           [range |-> r.edits[x].range, text |-> r.edits[x].text,
                            version |-> docVersion]]
                /\ nReady' = IF e.type = "ready" THEN nReady + 1 ELSE nReady
                /\ lastData' = IF e.type = "changed" THEN <<e.data>> ELSE lastData
       ELSE UNCHANGED <<outbox, pending, nReady, lastData>>
    /\ UNCHANGED <<hostVars, panelVars, disposed, changeSubscribed, doc,
                   docVersion, nChangeEvents, listenerCalls, lastEdit, rejected,
                   external, nOutside, jsonResult>>

\* The host settles the oldest pending edit by applying it: the range is
\* adjusted to the document as it is now.
HostApplyEdit ==
    /\ pending # << >>
    /\ LET e == Head(pending)
       IN  /\ doc' = ReplaceRange(doc, e.range, e.text)
           /\ lastEdit' = [applied |-> TRUE, stale |-> e.version # docVersion,
                           text |-> e.text, before |-> doc]
    /\ docVersion' = docVersion + 1
    /\ pending' = Tail(pending)
    /\ ChangeEvent(TRUE, doc')
    /\ UNCHANGED <<hostVars, panelVars, disposed, changeSubscribed, messageVars,
                   rejected, external, nOutside, jsonResult>>

\* The host settles the oldest pending edit by refusing it (applyEdit
\* resolves to false): the document has changed since the edit was made.
HostRejectEdit ==
    /\ pending # << >>
    /\ Head(pending).version # docVersion
    /\ pending' = Tail(pending)
    /\ rejected' = TRUE
    /\ UNCHANGED <<hostVars, panelVars, disposed, changeSubscribed, doc,
                   docVersion, outbox, messageVars, nChangeEvents, listenerCalls,
                   lastEdit, external, nOutside, jsonResult>>

\* Another editor of the same document, or anything else, changes it.
ExternalEdit(t) ==
    /\ status # "inactive"
    /\ nOutside < MaxDocEvents
    /\ t # doc
    /\ doc' = t
    /\ docVersion' = docVersion + 1
    /\ external' = TRUE
    /\ nOutside' = nOutside + 1
    /\ lastEdit' = NoEdit
    /\ ChangeEvent(TRUE, t)
    /\ UNCHANGED <<hostVars, panelVars, disposed, changeSubscribed, pending,
                   messageVars, rejected, jsonResult>>

\* Some other document changes: the event reaches the listener too.
OtherDocumentChange ==
    /\ status # "inactive"
    /\ nOutside < MaxDocEvents
    /\ nOutside' = nOutside + 1
    /\ ChangeEvent(FALSE, doc)
    /\ UNCHANGED <<hostVars, panelVars, disposed, changeSubscribed, doc,
                   docVersion, pending, messageVars, lastEdit, rejected,
                   external, jsonResult>>

\* The host disposes the panel and runs the onDidDispose callback, if any.
\* A disposed webview delivers no more messages.
Dispose ==
    /\ status # "inactive"
    /\ ~disposed
    /\ disposed' = TRUE
    /\ changeSubscribed' = IF disposeRegistered
                           THEN OnDidDispose(changeSubscribed)
                           ELSE changeSubscribed
    /\ UNCHANGED <<hostVars, panelVars, doc, docVersion, pending, outbox,
                   messageVars, nChangeEvents, listenerCalls, lastEdit, rejected,
                   external, nOutside, jsonResult>>

\* getDocumentAsJson(document), which no code path of the provider calls
InvokeGetDocumentAsJson ==
    /\ jsonResult = NotCalled
    /\ jsonResult' = GetDocumentAsJson(doc)
    /\ UNCHANGED <<hostVars, panelVars, disposed, changeSubscribed, doc,
                   docVersion, pending, outbox, messageVars, nChangeEvents,
                   listenerCalls, lastEdit, rejected, external, nOutside>>

Next ==
    \/ Activate
    \/ \E e \in Messages : Receive(e)
    \/ HostApplyEdit
    \/ HostRejectEdit
    \/ \E t \in ExternalTexts : ExternalEdit(t)
    \/ OtherDocumentChange
    \/ Dispose

Spec == Init /\ [][Next]_vars

\* getHtmlForWebview over many html files
InitHtml == InitWith({File(h) : h \in HtmlInputs}, {<< >>})

NextHtml == Activate

SpecHtml == InitHtml /\ [][NextHtml]_vars

\* getDocumentAsJson over many documents
InitJson == InitWith({File(IndexHtml)}, JsonTexts)

NextJson == InvokeGetDocumentAsJson

SpecJson == InitJson /\ [][NextJson]_vars

----------------------------------------------------------------------------
(* Properties *)

Last(s) == s[Len(s)]

\* the host applies the oldest pending edit in this step
EditApplied ==
    pending # << >> /\ pending' = Tail(pending) /\ docVersion' = docVersion + 1

\* the panel receives a message of this type in this step
Received(type) == nMsgs' = nMsgs + 1 /\ lastType' = type

IsBlank(t) == \A x \in 1..Len(t) : t[x] \in Whitespace

C2_ReadyPostsCssThenUpdate ==
    [][(Received("ready") /\ status = "active") =>
            /\ Len(outbox') = Len(outbox) + 2
            /\ SubSeq(outbox', 1, Len(outbox)) = outbox
            /\ outbox'[Len(outbox) + 1].type = "updateMapCss"
            /\ outbox'[Len(outbox) + 2].type = "update"
            /\ doc' = doc
            /\ docVersion' = docVersion
            /\ pending' = pending]_vars

C2_Witness ==
    /\ status = "active"
    /\ lastType = "ready"
    /\ nReady = 2
    /\ Len(outbox) = 4
    /\ outbox[3].type = "updateMapCss"
    /\ outbox[4].type = "update"

\* C3: a message whose type is neither 'ready' nor 'changed' changes neither
\* the document nor the pending edits and posts nothing.
C3_UnknownTypeIgnored ==
    [][(\E ty \in OtherTypes : Received(ty)) =>
            /\ outbox' = outbox
            /\ pending' = pending
            /\ doc' = doc
            /\ docVersion' = docVersion]_vars

C3_Witness ==
    /\ status = "active"
    /\ messageRegistered
    /\ lastType = "updateMapCss"
    /\ nMsgs = 2
    /\ nReady = 1

C6_UpdateCarriesCurrentText ==
    [][(Received("ready") /\ status = "active") =>
            /\ Last(outbox') = [type |-> "update", text |-> doc]
            /\ (pending = << >> /\ lastEdit.applied /\ ~lastEdit.stale) =>
                   Last(outbox').text = lastEdit.text]_vars

\* 'ready' handled while the edit of a 'changed' message is pending
C6_Witness ==
    /\ lastType = "ready"
    /\ pending # << >>
    /\ Head(pending).text # doc
    /\ lastData = <<Head(pending).text>>
    /\ Last(outbox) = [type |-> "update", text |-> doc]

\* C7: every link, script and img tag of the html file has its attribute
\* value replaced by the resource URI of that value, and nothing else of
\* the file is changed.
C7_EveryTagRewritten ==
    (status # "inactive" /\ fileHtml.present) =>
        \A ps \in SeqsUpTo(PieceIds, MaxPieces) :
            Flatten(ps, FALSE) = fileHtml.content => html = Flatten(ps, TRUE)

\* C8: getDocumentAsJson returns the empty object for a blank text, the
\* parsed value for well-formed JSON, throws the fixed error for any other
\* text, and leaves the document alone.
C8_GetDocumentAsJson ==
    jsonResult # NotCalled =>
        /\ IsBlank(doc) => jsonResult = Returned(EmptyObject)
        /\ (~IsBlank(doc) /\ JSONParse(doc).ok) =>
               jsonResult = Returned(JSONParse(doc).value)
        /\ (~IsBlank(doc) /\ ~JSONParse(doc).ok) =>
               jsonResult = Thrown(NotValidJson)
        /\ pending = << >>
        /\ docVersion = 1

\* a text of whitespace alone gave the empty object
C8_Witness ==
    /\ doc # << >>
    /\ IsBlank(doc)
    /\ jsonResult = Returned(EmptyObject)

\* C9: activation fails exactly when an asset file is absent; it then leaves
\* no callback registered, so later messages post nothing and queue no
\* edit, and the document stays as it was; only the script option, and the
\* html when index.html was read, have been set.
C9_FailedActivation ==
    /\ status = "active" => (fileHtml.present /\ fileCss.present)
    /\ status = "failed" =>
        /\ ~fileHtml.present \/ ~fileCss.present
        /\ ~changeSubscribed
        /\ ~disposeRegistered
        /\ ~messageRegistered
        /\ outbox = << >>
        /\ pending = << >>
        /\ ~lastEdit.applied
        /\ listenerCalls = 0
        /\ nReady = 0
        /\ enableScripts
        /\ html = (IF fileHtml.present THEN GetHtmlForWebview(fileHtml.content)
                   ELSE << >>)
        /\ ~external => (doc \in InitialDocuments /\ docVersion = 1)

\* two messages, the last a 'ready' or a 'changed', sent to a panel whose
\* activation failed
C9_Witness ==
    /\ status = "failed"
    /\ nMsgs = 2
    /\ lastType \in {"ready", "changed"}
    /\ outbox = << >>
    /\ pending = << >>

\* C10: once every edit made for the 'changed' messages has been applied,
\* the document is the text of the last message.
C10_LastWriteWins ==
    (/\ lastData # << >>
     /\ pending = << >>
     /\ ~rejected
     /\ ~external) => doc = lastData[1]

====
